---------------------------- MODULE Spec2Model ----------------------------
(***************************************************************************)
(* Model of bench/run_benchmark.py: the per-task lifecycle (run_task), the *)
(* result aggregation (aggregate_results), the history recorder            *)
(* (update_history) and the driver (main).                                 *)
(*                                                                         *)
(* Conventions                                                             *)
(*  - Python's None is the string None_ where a string is expected, and    *)
(*    the empty sequence where a structure is: <<x>> is the value x.       *)
(*  - A Python dict is a sequence of [key, val] pairs in insertion order   *)
(*    (dict iteration order is insertion order).                           *)
(*  - Money is counted in units of 10^-7 USD, so that round(x, 6) and      *)
(*    round(x, 4) are roundings to multiples of 10 and of 1000 units.      *)
(*  - A score is counted in tenths of a percent (score10 = 10 * score).    *)
(*  - A text is [src, len]: the first len characters of the text src;      *)
(*    the instruction built from it is a sequence of such pieces.          *)
(***************************************************************************)
EXTENDS Integers, Sequences, FiniteSets, TLC

VARIABLES
    env,                 \* the environment explored: what the agent, the tests,
                         \* the clock and `claude --version` can answer
    pc,                  \* position of main / run_task
    task_file_exists,    \* TASK_FILE.exists()
    dataset,             \* cc40["tasks"] as stored in TASK_FILE
    claude_version,      \* main: claude_version
    tasks,               \* main: tasks
    started_at,          \* main: started_at
    task_index,          \* main: the number of loop iterations begun
    task_results,        \* main: task_results
    running_score,       \* stdout: the last "Running score" line, <<>> before it
    results,             \* main: results (the RunSummary)
    exit_code,           \* process exit status, <<>> while running
    task,                \* run_task: task
    attempt,             \* run_task: attempt
    total_turns,         \* run_task: total_turns
    total_cost,          \* run_task: total_cost
    total_duration_ms,   \* run_task: total_duration_ms
    merged_model_usage,  \* run_task: merged_model_usage
    session_id,          \* run_task: session_id
    error_type,          \* run_task: error_type
    result,              \* run_task: result (of the last run_claude)
    test_output,         \* run_task: test_output
    ret,                 \* the TaskResult run_task returned to main
    invocations,         \* log: the run_claude calls of the current task
    test_runs,           \* log: the run_tests calls of the current task
    daily_files,         \* docs/data/<date>.json, by date
    latest_file,         \* docs/data/latest.json
    history_file,        \* docs/data/history.json
    workspace_dir,       \* bench/workspace: directory name -> content
    history_calls,       \* log: the number of update_history calls made
    recorders            \* update_history calls under way in other processes:
                         \* for each, its position and what it has read

mainVars == <<env, pc, task_file_exists, dataset, claude_version, tasks,
              started_at, task_index, task_results, running_score, results,
              exit_code>>
taskVars == <<task, attempt, total_turns, total_cost, total_duration_ms,
              merged_model_usage, session_id, error_type, result,
              test_output, ret, invocations, test_runs>>
fileVars == <<daily_files, latest_file, history_file, workspace_dir, history_calls,
              recorders>>
mainVars_but_pc == <<env, task_file_exists, dataset, claude_version, tasks,
                     started_at, task_index, task_results, running_score, results,
                     exit_code>>
vars == <<mainVars, taskVars, fileVars>>

None_ == "None"

-----------------------------------------------------------------------------
(* Program constants and the bounds of the model *)

MAX_ATTEMPTS == 2
TRUNCATE_LEN == 2000

\* the largest dataset (number of tasks) explored
MaxTasks == 2
\* run dates are 1..MaxDate (ISO dates compare as their day numbers do)
MaxDate == 3
\* the most update_history calls explored in a row
MaxCalls == 3
\* the longest list of TaskResults handed to aggregate_results on its own
MaxResults == 6

Dates == 1..MaxDate
UsageKeys == {"inputTokens", "outputTokens"}

-----------------------------------------------------------------------------
(* Python dicts and helpers *)

Keys(d) == {d[k].key : k \in DOMAIN d}

Lookup(d, key) == d[CHOOSE k \in DOMAIN d : d[k].key = key].val

\* dict.get(key, 0) on a usage record
Get(usage, key) == IF key \in DOMAIN usage THEN usage[key] ELSE 0

RECURSIVE SumSeq(_)
SumSeq(s) == IF s = <<>> THEN 0 ELSE Head(s) + SumSeq(Tail(s))

\* round(n / d) to the nearest integer, ties to even (Python's round)
RoundHalfEven(n, d) ==
    LET q == n \div d
        r == n % d
    IN  IF 2 * r > d \/ (2 * r = d /\ q % 2 = 1) THEN q + 1 ELSE q

-----------------------------------------------------------------------------
(* The environment: what the agent process and the test process can do *)

Text(src, len) == [src |-> src, len |-> len]

\* modelUsage objects of the agent's JSON; a usage may lack a token count
UsageA == << [key |-> "m2", val |-> [inputTokens |-> 3]],
             [key |-> "m1", val |-> [inputTokens |-> 1, outputTokens |-> 1]] >>
UsageB == << [key |-> "m1", val |-> [outputTokens |-> 1]] >>

Outcome(kind, isError, subtype, sessionId, numTurns, costUSD, modelUsage, elapsed) ==
    [kind |-> kind, isError |-> isError, subtype |-> subtype,
     sessionId |-> sessionId, numTurns |-> numTurns, costUSD |-> costUSD,
     modelUsage |-> modelUsage, elapsed_ms |-> elapsed]

\* What one subprocess.run of the agent can end in:
\*   raise     subprocess.run raises something other than TimeoutExpired, or
\*             the JSON output is not an object (data.get raises)
\*   timeout   subprocess.TimeoutExpired
\*   bad_json  stdout is not JSON
\*   json      stdout is a JSON object with the fields given
AgentOutcomes ==
    { Outcome("raise",    FALSE, None_, None_, 0, 0, <<>>, 0),
      Outcome("timeout",  FALSE, None_, None_, 0, 0, <<>>, 5),
      Outcome("bad_json", FALSE, None_, None_, 0, 0, <<>>, 1),
      Outcome("json", FALSE, "success", "s1", 2, 400004, UsageA, 2),
      Outcome("json", TRUE, "error_max_turns", "s2", 6, 250005, UsageB, 4),
      Outcome("json", TRUE, None_, None_, 0, 0, <<>>, 1) }

\* What one subprocess.run of the hidden tests can end in
TestOutcomes ==
    { [kind |-> "exit", returncode |-> 0, output |-> Text("ok", 2)],
      [kind |-> "exit", returncode |-> 1, output |-> Text("FAILED (failures=1)", TRUNCATE_LEN)],
      [kind |-> "exit", returncode |-> 1, output |-> Text("FAILED (errors=9)", TRUNCATE_LEN + 1)],
      [kind |-> "timeout", returncode |-> 0, output |-> Text("", 0)],
      [kind |-> "exception", returncode |-> 0, output |-> Text("", 0)] }

Digits == <<"1", "2", "3", "4", "5", "6", "7", "8", "9">>

\* a task identifier is a sequence of tokens, "HumanEval/7" is <<"HumanEval", "/", "7">>
Task(n) == [task_id |-> <<"HumanEval", "/", Digits[n]>>, entry_point |-> Digits[n]]

\* the datasets TASK_FILE can hold: tasks 1..n, n <= MaxTasks
Datasets == { [k \in 1..n |-> Task(k)] : n \in 0..MaxTasks }

Versions == {"2.1.0 (Claude Code)", "unknown"}

Timestamp(d, t) == [date |-> d, time |-> t]

\* the environment of one run of main: every outcome of the agent and of the
\* tests, one day, one agent version
RunEnv ==
    [agent |-> AgentOutcomes, tests |-> TestOutcomes, dates |-> {1},
     versions |-> {"2.1.0 (Claude Code)"}]

-----------------------------------------------------------------------------
(* Pure functions of run_benchmark.py *)

build_prompt(t) == << Text("Read prompt.md and implement ...", 105) >>

\* mutant: an output of exactly TRUNCATE_LEN characters is cut too (>= for >)
build_retry_prompt_CutsAtLimit(out) ==
    LET body == IF out.len >= TRUNCATE_LEN
                THEN << Text(out.src, TRUNCATE_LEN), Text("\n... (truncated)", 16) >>
                ELSE << out >>
    IN  << Text("The tests failed with the following output:\n\n", 45) >>
        \o body
        \o << Text("\n\nPlease fix solution.py to pass the tests.", 43) >>

build_retry_prompt(out) ==
    LET body == IF out.len > TRUNCATE_LEN
                THEN << Text(out.src, TRUNCATE_LEN), Text("\n... (truncated)", 16) >>
                ELSE << out >>
    IN  << Text("The tests failed with the following output:\n\n", 45) >>
        \o body
        \o << Text("\n\nPlease fix solution.py to pass the tests.", 43) >>

\* run_claude: the arguments that continue a conversation,
\* if session_id: cmd.extend(["--resume", session_id])
resume_args(sid) == IF sid = None_ THEN <<>> ELSE <<"--resume", sid>>

\* mutant: the session of the response is not read, the one passed in is kept
run_claude_KeepsSession(prompt, sid, o) ==
    IF o.kind \in {"timeout", "bad_json"}
    THEN [session_id |-> sid, duration_ms |-> o.elapsed_ms, num_turns |-> 0,
          total_cost_usd |-> 0, model_usage |-> <<>>, is_error |-> TRUE,
          error_subtype |-> IF o.kind = "timeout" THEN "timeout" ELSE "claude_error"]
    ELSE [session_id |-> sid,
          duration_ms |-> o.elapsed_ms, num_turns |-> o.numTurns,
          total_cost_usd |-> o.costUSD, model_usage |-> o.modelUsage,
          is_error |-> o.isError,
          error_subtype |-> IF o.isError /\ o.subtype = None_
                            THEN "claude_error" ELSE o.subtype]

\* run_claude's return value for the outcome o of the agent process
run_claude(prompt, sid, o) ==
    IF o.kind \in {"timeout", "bad_json"}
    THEN [session_id |-> sid, duration_ms |-> o.elapsed_ms, num_turns |-> 0,
          total_cost_usd |-> 0, model_usage |-> <<>>, is_error |-> TRUE,
          error_subtype |-> IF o.kind = "timeout" THEN "timeout" ELSE "claude_error"]
    ELSE [session_id |-> IF o.sessionId # None_ THEN o.sessionId ELSE sid,
          duration_ms |-> o.elapsed_ms, num_turns |-> o.numTurns,
          total_cost_usd |-> o.costUSD, model_usage |-> o.modelUsage,
          is_error |-> o.isError,
          error_subtype |-> IF o.isError /\ o.subtype = None_
                            THEN "claude_error" ELSE o.subtype]

\* mutant: a test process that did not run to its end leaves no message
run_tests_NoDiagnostic(o) ==
    IF o.kind = "exit" THEN [passed |-> o.returncode = 0, output |-> o.output]
    ELSE [passed |-> FALSE, output |-> Text("", 0)]

\* run_tests' return value (passed, output) for the outcome o of the test process
run_tests(o) ==
    CASE o.kind = "exit" -> [passed |-> o.returncode = 0, output |-> o.output]
      [] o.kind = "timeout" ->
            [passed |-> FALSE, output |-> Text("Test execution timed out (30s)", 30)]
      [] OTHER ->
            [passed |-> FALSE, output |-> Text("Test execution error: ...", 25)]

\* mutant: merged[model][key] = usage.get(key, 0), the last usage wins
AddUsage_Overwrite(merged, model, usage) ==
    LET m1 == IF model \in Keys(merged) THEN merged
              ELSE Append(merged, [key |-> model,
                                   val |-> [inputTokens |-> 0, outputTokens |-> 0]])
    IN  [k \in DOMAIN m1 |->
            IF m1[k].key = model
            THEN [key |-> model,
                  val |-> [inputTokens  |-> Get(usage, "inputTokens"),
                           outputTokens |-> Get(usage, "outputTokens")]]
            ELSE m1[k]]

\* merged[model][key] += usage.get(key, 0), creating merged[model] when absent
AddUsage(merged, model, usage) ==
    LET m1 == IF model \in Keys(merged) THEN merged
              ELSE Append(merged, [key |-> model,
                                   val |-> [inputTokens |-> 0, outputTokens |-> 0]])
    IN  [k \in DOMAIN m1 |->
            IF m1[k].key = model
            THEN [key |-> model,
                  val |-> [inputTokens  |-> m1[k].val.inputTokens
                                            + Get(usage, "inputTokens"),
                           outputTokens |-> m1[k].val.outputTokens
                                            + Get(usage, "outputTokens")]]
            ELSE m1[k]]

\* for model, usage in items: ... (the merge loop of run_task)
RECURSIVE MergeUsage(_, _)
MergeUsage(merged, items) ==
    IF items = <<>> THEN merged
    ELSE MergeUsage(AddUsage(merged, Head(items).key, Head(items).val), Tail(items))

\* mutant: the attempt is counted from 0
build_result_ZeroBased(t, passed, attempts, turns, duration_ms, cost, model_usage, et) ==
    [task_id |-> t.task_id, function_name |-> t.entry_point, passed |-> passed,
     attempts_used |-> attempts - 1, num_turns_total |-> turns,
     duration_ms_total |-> duration_ms,
     total_cost_usd_total |-> 10 * RoundHalfEven(cost, 10),
     modelUsage |-> model_usage, error_type |-> et]

build_result(t, passed, attempts, turns, duration_ms, cost, model_usage, et) ==
    [task_id |-> t.task_id, function_name |-> t.entry_point, passed |-> passed,
     attempts_used |-> attempts, num_turns_total |-> turns,
     duration_ms_total |-> duration_ms,
     total_cost_usd_total |-> 10 * RoundHalfEven(cost, 10),
     modelUsage |-> model_usage, error_type |-> et]

\* task["task_id"].replace("/", "_")
task_dir_name(t) ==
    [k \in DOMAIN t.task_id |-> IF t.task_id[k] = "/" THEN "_" ELSE t.task_id[k]]

\* mutant: a directory that exists is kept as it is (mkdir(exist_ok=True))
setup_workspace_KeepsExisting(ws, t) ==
    LET name == task_dir_name(t)
    IN  [d \in DOMAIN ws \cup {name} |->
            IF d \in DOMAIN ws THEN ws[d]
            ELSE [task_id |-> t.task_id, solution |-> "stub"]]

\* setup_workspace: the directory is removed if it exists and built afresh
setup_workspace(ws, t) ==
    LET name == task_dir_name(t)
    IN  [d \in DOMAIN ws \cup {name} |->
            IF d = name THEN [task_id |-> t.task_id, solution |-> "stub"] ELSE ws[d]]

\* the agent may rewrite solution.py in its working directory
agent_edits(ws, t) ==
    [ws EXCEPT ![task_dir_name(t)].solution = "agent"]

-----------------------------------------------------------------------------
(* aggregate_results *)

\* sum(1 for r in task_results if r["passed"])
RECURSIVE passed_count(_)
passed_count(trs) ==
    IF trs = <<>> THEN 0
    ELSE (IF Head(trs).passed THEN 1 ELSE 0) + passed_count(Tail(trs))

\* mutant: the percentage is cut to one decimal, not rounded
score10_Truncated(trs) ==
    IF Len(trs) = 0 THEN 0 ELSE (1000 * passed_count(trs)) \div Len(trs)

\* round((passed_count / total_count) * 100, 1) if total_count else 0, in tenths
score10(trs) ==
    IF Len(trs) = 0 THEN 0 ELSE RoundHalfEven(1000 * passed_count(trs), Len(trs))

\* the merge loop of aggregate_results over r["modelUsage"] of every result
RECURSIVE merged_usage(_)
merged_usage(trs) ==
    IF trs = <<>> THEN <<>>
    ELSE LET front == SubSeq(trs, 1, Len(trs) - 1)
         IN  MergeUsage(merged_usage(front), trs[Len(trs)].modelUsage)

Tokens(usage) == usage.inputTokens + usage.outputTokens

\* mutant: among equal counts the last key wins
RECURSIVE MaxFrom_LastWins(_, _, _)
MaxFrom_LastWins(d, k, best) ==
    IF k > Len(d) THEN d[best].key
    ELSE MaxFrom_LastWins(d, k + 1,
                          IF Tokens(d[k].val) >= Tokens(d[best].val) THEN k ELSE best)

\* max(d, key=...): the first key, in iteration order, of the greatest value
RECURSIVE MaxFrom(_, _, _)
MaxFrom(d, k, best) ==
    IF k > Len(d) THEN d[best].key
    ELSE MaxFrom(d, k + 1, IF Tokens(d[k].val) > Tokens(d[best].val) THEN k ELSE best)

primary_model(merged) == IF merged = <<>> THEN "unknown" ELSE MaxFrom(merged, 2, 1)

aggregate_results(trs, started, finished, version) ==
    [date |-> started.date,
     suite |-> "HumanEval-CC40",
     score10 |-> score10(trs),
     passed |-> passed_count(trs),
     total |-> Len(trs),
     total_cost_usd |->
        1000 * RoundHalfEven(SumSeq([k \in DOMAIN trs |-> trs[k].total_cost_usd_total]), 1000),
     total_duration_ms |-> SumSeq([k \in DOMAIN trs |-> trs[k].duration_ms_total]),
     primary_model |-> primary_model(merged_usage(trs)),
     claude_version |-> version,
     modelUsage |-> merged_usage(trs),
     started_at |-> started,
     finished_at |-> finished,
     tasks |-> trs]

-----------------------------------------------------------------------------
(* update_history *)

NoFile == [exists |-> FALSE, entries |-> <<>>]

\* mutant: the entry is dated by the day the run finished on
history_entry_FinishDate(today_result) ==
    [date |-> today_result.finished_at.date,
     score10 |-> today_result.score10,
     passed |-> today_result.passed,
     total |-> today_result.total,
     total_cost_usd |-> today_result.total_cost_usd,
     total_duration_ms |-> today_result.total_duration_ms,
     primary_model |-> today_result.primary_model,
     claude_version |-> today_result.claude_version]

history_entry(today_result) ==
    [date |-> today_result.date,
     score10 |-> today_result.score10,
     passed |-> today_result.passed,
     total |-> today_result.total,
     total_cost_usd |-> today_result.total_cost_usd,
     total_duration_ms |-> today_result.total_duration_ms,
     primary_model |-> today_result.primary_model,
     claude_version |-> today_result.claude_version]

\* mutant: the entries of earlier dates go too (> for !=)
remove_date_DropsEarlier(s, date) == SelectSeq(s, LAMBDA e : e.date > date)

\* mutant: the entry of the same date is kept
remove_date_KeepsAll(s, date) == s

\* [e for e in history["entries"] if e["date"] != entry["date"]]
RECURSIVE remove_date(_, _)
remove_date(s, date) ==
    IF s = <<>> THEN <<>>
    ELSE IF Head(s).date # date THEN <<Head(s)>> \o remove_date(Tail(s), date)
         ELSE remove_date(Tail(s), date)

\* mutant: the entries stay in the order they were recorded in
InsertByDate_AtEnd(sorted, e) == Append(sorted, e)

\* list.sort(key=date): a stable sort, here by insertion from the left
InsertByDate(sorted, e) ==
    LET n == Cardinality({k \in DOMAIN sorted : sorted[k].date <= e.date})
    IN  SubSeq(sorted, 1, n) \o <<e>> \o SubSeq(sorted, n + 1, Len(sorted))

RECURSIVE SortByDate(_)
SortByDate(s) ==
    IF s = <<>> THEN <<>>
    ELSE InsertByDate(SortByDate(SubSeq(s, 1, Len(s) - 1)), s[Len(s)])

\* mutant: a date already in the history keeps its entry
update_history_KeepsOld(file, today_result) ==
    LET history == IF file.exists THEN file.entries ELSE <<>>
        entry   == history_entry(today_result)
    IN  IF \E k \in DOMAIN history : history[k].date = entry.date
        THEN [exists |-> TRUE, entries |-> history]
        ELSE [exists |-> TRUE, entries |-> SortByDate(Append(history, entry))]

\* the content update_history writes to history.json, given what it read
update_history(file, today_result) ==
    LET history == IF file.exists THEN file.entries ELSE <<>>
        entry   == history_entry(today_result)
        kept    == remove_date(history, entry.date)
    IN  [exists |-> TRUE, entries |-> SortByDate(Append(kept, entry))]

-----------------------------------------------------------------------------
(* The run: main, with run_task stepping from one subprocess to the next *)

NoDailyFiles == [d \in Dates |-> <<>>]

\* what generate_tasks.py leaves in bench/workspace for the dataset ds
StubWorkspace(ds) ==
    [d \in {task_dir_name(ds[k]) : k \in DOMAIN ds} |->
        [task_id |-> ds[CHOOSE k \in DOMAIN ds : task_dir_name(ds[k]) = d].task_id,
         solution |-> "stub"]]

Init ==
    /\ env = RunEnv
    /\ pc = "start"
    /\ task_file_exists \in BOOLEAN
    /\ dataset \in Datasets
    /\ claude_version = None_
    /\ tasks = <<>>
    /\ started_at = <<>>
    /\ task_index = 0
    /\ task_results = <<>>
    /\ running_score = <<>>
    /\ results = <<>>
    /\ exit_code = <<>>
    /\ task = <<>>
    /\ attempt = 0
    /\ total_turns = 0
    /\ total_cost = 0
    /\ total_duration_ms = 0
    /\ merged_model_usage = <<>>
    /\ session_id = None_
    /\ error_type = None_
    /\ result = <<>>
    /\ test_output = <<>>
    /\ ret = <<>>
    /\ invocations = <<>>
    /\ test_runs = <<>>
    /\ daily_files = NoDailyFiles
    /\ latest_file = <<>>
    /\ history_file = NoFile
    /\ workspace_dir \in {<<>>, StubWorkspace(dataset)}
    /\ history_calls = 0
    /\ recorders = <<>>

\* main: claude_version = get_claude_version()
Main_GetVersion ==
    /\ pc = "start"
    /\ \E v \in env.versions : claude_version' = v
    /\ pc' = "load"
    /\ UNCHANGED <<env, task_file_exists, dataset, tasks, started_at, task_index,
                   task_results, running_score, results, exit_code, taskVars, fileVars>>

\* mutant: the task file is never looked for
TaskFileMissing_NotChecked == FALSE

\* if not TASK_FILE.exists()
TaskFileMissing == ~task_file_exists

\* main: the task file is missing, sys.exit(1)
Main_NoTaskFile ==
    /\ pc = "load"
    /\ TaskFileMissing
    /\ pc' = "exited"
    /\ exit_code' = <<1>>
    /\ UNCHANGED <<env, task_file_exists, dataset, claude_version, tasks, started_at,
                   task_index, task_results, running_score, results, taskVars, fileVars>>

\* main: load the tasks, record the start time
Main_LoadTasks ==
    /\ pc = "load"
    /\ ~TaskFileMissing
    /\ tasks' = dataset
    /\ \E d \in env.dates : started_at' = <<Timestamp(d, "T09:00")>>
    /\ task_results' = <<>>
    /\ task_index' = 0
    /\ pc' = "loop"
    /\ UNCHANGED <<env, task_file_exists, dataset, claude_version, running_score,
                   results, exit_code,
                   taskVars, fileVars>>

\* what the file system answers to setup_workspace: rmtree, mkdir and
\* write_text raise OSError when it refuses
SetupOutcomes == {"ok", "OSError"}

\* the directory of the task is gone (shutil.rmtree)
rmtree(ws, name) == [d \in DOMAIN ws \ {name} |-> ws[d]]

\* main calls run_task(tasks[i]): run_task up to its first attempt; an
\* exception of setup_workspace is handled nowhere and ends the process
RunTask_Setup ==
    /\ pc = "loop"
    /\ task_index < Len(tasks)
    /\ task_index' = task_index + 1
    /\ task' = <<tasks[task_index + 1]>>
    /\ invocations' = <<>>
    /\ test_runs' = <<>>
    /\ \E s \in SetupOutcomes :
         IF s = "ok"
         THEN /\ workspace_dir' = setup_workspace(workspace_dir, tasks[task_index + 1])
              /\ total_turns' = 0
              /\ total_cost' = 0
              /\ total_duration_ms' = 0
              /\ merged_model_usage' = <<>>
              /\ session_id' = None_
              /\ error_type' = None_
              /\ attempt' = 1
              /\ pc' = "invoke"
              /\ UNCHANGED exit_code
         ELSE /\ workspace_dir' \in
                    {workspace_dir,
                     rmtree(workspace_dir, task_dir_name(tasks[task_index + 1]))}
              /\ pc' = "crashed"
              /\ exit_code' = <<1>>
              /\ UNCHANGED <<total_turns, total_cost, total_duration_ms,
                             merged_model_usage, session_id, error_type, attempt>>
    /\ UNCHANGED <<env, task_file_exists, dataset, claude_version, tasks, started_at,
                   task_results, running_score, results, result, test_output, ret,
                   daily_files, latest_file, history_file, history_calls, recorders>>

\* run_task returns tr: its locals are gone, the logs are kept for main's step
Return(tr) ==
    /\ ret' = <<tr>>
    /\ pc' = "returned"
    /\ task' = <<>>
    /\ attempt' = 0
    /\ total_turns' = 0
    /\ total_cost' = 0
    /\ total_duration_ms' = 0
    /\ merged_model_usage' = <<>>
    /\ session_id' = None_
    /\ error_type' = None_
    /\ result' = <<>>
    /\ test_output' = <<>>

\* the for loop goes on to the next attempt, with the test output as feedback
Continue(out) ==
    /\ attempt' = attempt + 1
    /\ test_output' = <<out>>
    /\ pc' = "invoke"
    /\ UNCHANGED <<task, total_turns, total_cost, total_duration_ms,
                   merged_model_usage, session_id, error_type, result, ret>>

\* mutant: the error classifier is recorded although the tests passed
PassDespiteErrorResult_KeepsError ==
    build_result(task[1], TRUE, attempt, total_turns, total_duration_ms,
                 total_cost, merged_model_usage, error_type)

\* mutant: an errored invocation fails the task whatever the tests say
PassDespiteErrorResult_Fails ==
    build_result(task[1], FALSE, attempt, total_turns, total_duration_ms,
                 total_cost, merged_model_usage, error_type)

\* the TaskResult when the tests pass although the invocation errored
PassDespiteErrorResult ==
    build_result(task[1], TRUE, attempt, total_turns, total_duration_ms,
                 total_cost, merged_model_usage, None_)

\* the TaskResult when the tests pass after an invocation without error
PassResult ==
    build_result(task[1], TRUE, attempt, total_turns, total_duration_ms,
                 total_cost, merged_model_usage, None_)

\* the TaskResult of a failing last attempt whose invocation errored
ErrorResult ==
    build_result(task[1], FALSE, attempt, total_turns, total_duration_ms,
                 total_cost, merged_model_usage, error_type)

\* mutant: the classifier of an earlier attempt's error is kept
FailResult_KeepsEarlierError ==
    build_result(task[1], FALSE, attempt, total_turns, total_duration_ms,
                 total_cost, merged_model_usage,
                 IF error_type # None_ THEN error_type ELSE "tests_failed")

\* the TaskResult of a failing last attempt whose invocation did not error
FailResult ==
    build_result(task[1], FALSE, attempt, total_turns, total_duration_ms,
                 total_cost, merged_model_usage, "tests_failed")

\* the TaskResult after the for loop ("should not reach here")
FallThroughResult ==
    build_result(task[1], FALSE, MAX_ATTEMPTS, total_turns, total_duration_ms,
                 total_cost, merged_model_usage,
                 IF error_type # None_ THEN error_type ELSE "tests_failed")

\* mutant: an errored invocation with failing tests ends the task at once
LastAttemptAfterError_Always == TRUE

\* if attempt >= MAX_ATTEMPTS, after an errored invocation and failing tests
LastAttemptAfterError == attempt >= MAX_ATTEMPTS

\* if attempt >= MAX_ATTEMPTS, after failing tests
LastAttempt == attempt >= MAX_ATTEMPTS

\* the instruction of the current attempt
Prompt == IF attempt = 1 THEN build_prompt(task[1]) ELSE build_retry_prompt(test_output[1])

\* mutant: total = x, the totals are those of the last attempt
Accumulate_LastOnly(total, x) == x

\* total += x
Accumulate(total, x) == total + x

\* mutant: a failure is classified by its tests, whatever the agent did
ErrorTypeOf_TestsFailed(r) == "tests_failed"

\* error_type = result["error_subtype"] or "claude_error"
ErrorTypeOf(r) == IF r.error_subtype = None_ THEN "claude_error" ELSE r.error_subtype

\* mutant: no test is run on what a timed out agent left
after_run_claude_SkipOnTimeout(r) ==
    IF r.error_subtype = "timeout" THEN "invoke" ELSE "tests"

\* run_task: run_tests is the next call on the error path and on the other
after_run_claude(r) == "tests"

\* run_task: one attempt from its prompt to the call of run_tests
RunTask_InvokeClaude ==
    /\ pc = "invoke"
    /\ \E o \in env.agent :
        IF attempt > MAX_ATTEMPTS
        THEN \* the for loop is exhausted
             /\ Return(FallThroughResult)
             /\ UNCHANGED <<exit_code, invocations, test_runs, fileVars>>
        ELSE IF o.kind = "raise"
        THEN /\ pc' = "crashed"
             /\ exit_code' = <<1>>
             /\ UNCHANGED <<taskVars, fileVars>>
        ELSE LET r == run_claude(Prompt, session_id, o)
             IN  /\ result' = <<r>>
                 /\ session_id' = r.session_id
                 /\ total_turns' = Accumulate(total_turns, r.num_turns)
                 /\ total_cost' = Accumulate(total_cost, r.total_cost_usd)
                 /\ total_duration_ms' = Accumulate(total_duration_ms, r.duration_ms)
                 /\ merged_model_usage' = MergeUsage(merged_model_usage, r.model_usage)
                 /\ error_type' = IF r.is_error THEN ErrorTypeOf(r) ELSE error_type
                 /\ invocations' = Append(invocations,
                        [attempt |-> attempt, prompt |-> Prompt,
                         session_id |-> session_id, resume |-> resume_args(session_id),
                         outcome |-> o, result |-> r])
                 /\ workspace_dir' = agent_edits(workspace_dir, task[1])
                 /\ pc' = after_run_claude(r)
                 /\ UNCHANGED <<exit_code, task, attempt, test_output, ret, test_runs,
                                daily_files, latest_file, history_file, history_calls, recorders>>
    /\ UNCHANGED <<env, task_file_exists, dataset, claude_version, tasks, started_at,
                   task_index, task_results, running_score, results>>

\* run_task: run_tests and what follows it, to the return or to the next attempt
RunTask_RunTests ==
    /\ pc = "tests"
    /\ \E o \in env.tests :
        LET t == run_tests(o)
        IN  /\ test_runs' = Append(test_runs, [attempt |-> attempt, kind |-> o.kind,
                                               passed |-> t.passed, output |-> t.output])
            /\ IF result[1].is_error
               THEN IF t.passed THEN Return(PassDespiteErrorResult)
                    ELSE IF LastAttemptAfterError THEN Return(ErrorResult)
                    ELSE Continue(t.output)
               ELSE IF t.passed THEN Return(PassResult)
                    ELSE IF LastAttempt THEN Return(FailResult)
                    ELSE Continue(t.output)
    /\ UNCHANGED <<mainVars_but_pc, invocations, fileVars>>

\* mutant: the new result goes to the front of the list
append_AtFront(trs, r) == <<r>> \o trs

\* list.append
append(trs, r) == Append(trs, r)

\* main: task_results.append(result), then the progress line
Main_AppendResult ==
    /\ pc = "returned"
    /\ task_results' = append(task_results, ret[1])
    /\ running_score' = <<[passed_so_far |-> passed_count(task_results'),
                           of |-> Len(task_results')]>>
    /\ ret' = <<>>
    /\ invocations' = <<>>
    /\ test_runs' = <<>>
    /\ pc' = "loop"
    /\ UNCHANGED <<env, task_file_exists, dataset, claude_version, tasks, started_at,
                   task_index, results, exit_code, task, attempt, total_turns,
                   total_cost, total_duration_ms, merged_model_usage, session_id,
                   error_type, result, test_output, fileVars>>

\* main: the loop is over; record the finish time and aggregate
Main_Aggregate ==
    /\ pc = "loop"
    /\ task_index >= Len(tasks)
    /\ results' = <<aggregate_results(task_results, started_at[1],
                                      Timestamp(started_at[1].date, "T10:00"),
                                      claude_version)>>
    /\ pc' = "write_daily"
    /\ UNCHANGED <<env, task_file_exists, dataset, claude_version, tasks, started_at,
                   task_index, task_results, running_score, exit_code, taskVars, fileVars>>

\* json.dumps(obj, indent=n) + "\n": the text is told by the value it encodes
\* and by its indentation; a file holds no text (<<>>) or one (<<text>>)
json_dumps(obj, indent) == [json |-> obj, indent |-> indent, newline |-> TRUE]

\* the text written to docs/data/<date>.json
daily_file_text(r) == json_dumps(r, 2)

\* mutant: latest.json is written without indentation
latest_file_text_Compact(r) == json_dumps(r, 0)

\* the text written to docs/data/latest.json
latest_file_text(r) == json_dumps(r, 2)

\* main: daily_file.write_text(json.dumps(results))
Main_WriteDaily ==
    /\ pc = "write_daily"
    /\ daily_files' = [daily_files EXCEPT ![results[1].date] = <<daily_file_text(results[1])>>]
    /\ pc' = "write_latest"
    /\ UNCHANGED <<mainVars_but_pc, taskVars, latest_file, history_file, workspace_dir,
                   history_calls, recorders>>

\* main: latest_file.write_text(json.dumps(results))
Main_WriteLatest ==
    /\ pc = "write_latest"
    /\ latest_file' = <<latest_file_text(results[1])>>
    /\ pc' = "update_history"
    /\ UNCHANGED <<mainVars_but_pc, taskVars, daily_files, history_file, workspace_dir,
                   history_calls, recorders>>

\* main: update_history(results)
Main_UpdateHistory ==
    /\ pc = "update_history"
    /\ history_file' = update_history(history_file, results[1])
    /\ history_calls' = history_calls + 1
    /\ UNCHANGED recorders
    /\ pc' = "cleanup"
    /\ UNCHANGED <<mainVars_but_pc, taskVars, daily_files, latest_file, workspace_dir>>

\* main: shutil.rmtree(WORKSPACE_DIR), and the process ends
Main_Cleanup ==
    /\ pc = "cleanup"
    /\ workspace_dir' = <<>>
    /\ pc' = "done"
    /\ exit_code' = <<0>>
    /\ UNCHANGED <<env, task_file_exists, dataset, claude_version, tasks, started_at,
                   task_index, task_results, running_score, results, taskVars, daily_files,
                   latest_file, history_file, history_calls, recorders>>

Next ==
    \/ Main_GetVersion
    \/ Main_NoTaskFile
    \/ Main_LoadTasks
    \/ RunTask_Setup
    \/ RunTask_InvokeClaude
    \/ RunTask_RunTests
    \/ Main_AppendResult
    \/ Main_Aggregate
    \/ Main_WriteDaily
    \/ Main_WriteLatest
    \/ Main_UpdateHistory
    \/ Main_Cleanup

Spec == Init /\ [][Next]_vars

-----------------------------------------------------------------------------
(* aggregate_results and update_history on their own, on inputs from bounded sets *)

\* TaskResults that run_task returns for task t
CannedResults(t) ==
    { build_result(t, TRUE, 1, 2, 2, 400004, MergeUsage(<<>>, UsageA), None_),
      build_result(t, TRUE, 2, 8, 6, 650009,
                   MergeUsage(MergeUsage(<<>>, UsageB), UsageA), None_),
      build_result(t, FALSE, 2, 12, 8, 500010,
                   MergeUsage(MergeUsage(<<>>, UsageB), UsageB), "error_max_turns"),
      build_result(t, FALSE, 2, 0, 10, 0, <<>>, "timeout") }

IdleTask ==
    /\ task = <<>>
    /\ attempt = 0
    /\ total_turns = 0
    /\ total_cost = 0
    /\ total_duration_ms = 0
    /\ merged_model_usage = <<>>
    /\ session_id = None_
    /\ error_type = None_
    /\ result = <<>>
    /\ test_output = <<>>
    /\ ret = <<>>
    /\ invocations = <<>>
    /\ test_runs = <<>>

IdleMain ==
    /\ task_file_exists = TRUE
    /\ dataset = <<>>
    /\ claude_version = None_
    /\ tasks = <<>>
    /\ started_at = <<>>
    /\ task_index = 0
    /\ task_results = <<>>
    /\ running_score = <<>>
    /\ results = <<>>
    /\ exit_code = <<>>

InitAggregate ==
    /\ env = [agent |-> {}, tests |-> {}, dates |-> {1}, versions |-> Versions]
    /\ pc = "collect"
    /\ IdleMain
    /\ IdleTask
    /\ daily_files = NoDailyFiles
    /\ latest_file = <<>>
    /\ history_file = NoFile
    /\ workspace_dir = <<>>
    /\ history_calls = 0
    /\ recorders = <<>>

\* one more TaskResult in the list, for the next task of the dataset
Agg_Append ==
    /\ pc = "collect"
    /\ Len(task_results) < MaxResults
    /\ \E tr \in CannedResults(Task(Len(task_results) + 1)) :
          /\ task_results' = append(task_results, tr)
          /\ running_score' = <<[passed_so_far |-> passed_count(task_results'),
                                 of |-> Len(task_results')]>>
    /\ UNCHANGED <<env, pc, task_file_exists, dataset, claude_version, tasks,
                   started_at, task_index, results, exit_code, taskVars, fileVars>>

\* results = aggregate_results(task_results, started_at, finished_at, claude_version)
Agg_Aggregate ==
    /\ pc = "collect"
    /\ \E d \in env.dates, v \in env.versions :
          results' = <<aggregate_results(task_results, Timestamp(d, "T09:00"),
                                         Timestamp(d, "T10:00"), v)>>
    /\ pc' = "aggregated"
    /\ UNCHANGED <<env, task_file_exists, dataset, claude_version, tasks, started_at,
                   task_index, task_results, running_score, exit_code, taskVars, fileVars>>

NextAggregate == Agg_Append \/ Agg_Aggregate

SpecAggregate == InitAggregate /\ [][NextAggregate]_vars

\* the lists of TaskResults of the runs recorded in the history
CannedRuns ==
    {<<>>} \cup { <<tr>> : tr \in { r \in CannedResults(Task(1)) : r.attempts_used = 2 } }

InitHistory ==
    /\ env = [agent |-> {}, tests |-> {}, dates |-> Dates, versions |-> Versions]
    /\ pc = "recorder"
    /\ IdleMain
    /\ IdleTask
    /\ daily_files = NoDailyFiles
    /\ latest_file = <<>>
    /\ history_file \in {NoFile, [exists |-> TRUE, entries |-> <<>>]}
    /\ workspace_dir = <<>>
    /\ history_calls = 0
    /\ recorders = <<>>

\* update_history(today_result), for the summary of some run
History_Record ==
    /\ pc = "recorder"
    /\ history_calls < MaxCalls
    /\ \E trs \in CannedRuns, d \in env.dates, v \in env.versions :
          LET today_result == aggregate_results(trs, Timestamp(d, "T09:00"),
                                                Timestamp(d, "T10:00"), v)
          IN  /\ results' = <<today_result>>
              /\ history_file' = update_history(history_file, today_result)
    /\ history_calls' = history_calls + 1
    /\ UNCHANGED recorders
    /\ UNCHANGED <<env, pc, task_file_exists, dataset, claude_version, tasks,
                   started_at, task_index, task_results, running_score, exit_code, taskVars,
                   daily_files, latest_file, workspace_dir>>

NextHistory == History_Record

SpecHistory == InitHistory /\ [][NextHistory]_vars

-----------------------------------------------------------------------------
(* Properties of run_task, checked under Spec *)

Abs(x) == IF x < 0 THEN -x ELSE x

\* the TaskResults that exist: the one just returned and those main holds
TaskResults == {ret[k] : k \in DOMAIN ret} \cup {task_results[k] : k \in DOMAIN task_results}

\* C1: in every TaskResult run_task returns, error_type is null if and only
\* if passed is true
C1_ErrorTypeNullIffPassed ==
    \A tr \in TaskResults : (tr.error_type = None_) <=> tr.passed

\* a task passed on its second attempt although that invocation errored
C1_Witness ==
    /\ pc = "returned"
    /\ ret[1].passed
    /\ ret[1].attempts_used = 2
    /\ invocations[2].result.is_error
    /\ ret[1].error_type = None_

\* C2: attempts_used is the number of agent invocations made for the task,
\* between 1 and MAX_ATTEMPTS, and no task sees more than MAX_ATTEMPTS
\* invocations
C2_AttemptsUsed ==
    /\ Len(invocations) <= MAX_ATTEMPTS
    /\ ret # <<>> =>
          /\ ret[1].attempts_used = Len(invocations)
          /\ 1 <= ret[1].attempts_used
          /\ ret[1].attempts_used <= MAX_ATTEMPTS

\* a task returned after MAX_ATTEMPTS invocations
C2_Witness ==
    /\ pc = "returned"
    /\ Len(invocations) = MAX_ATTEMPTS
    /\ ret[1].attempts_used = MAX_ATTEMPTS

\* the first attempt whose tests passed
FirstPassing == CHOOSE k \in DOMAIN test_runs :
                    /\ test_runs[k].passed
                    /\ \A j \in 1..(k - 1) : ~test_runs[j].passed

\* C3: passed is true exactly when the tests passed on some executed attempt,
\* errored invocation or not; then attempts_used is the first passing
\* attempt, error_type is null, and nothing of the task runs after the
\* passing verdict
C3_PassedIffTestsPassed ==
    /\ \A k \in DOMAIN test_runs :
          test_runs[k].passed =>
             /\ pc = "returned"
             /\ k = Len(test_runs)
             /\ Len(invocations) = k
    /\ ret # <<>> =>
          /\ ret[1].passed <=> \E k \in DOMAIN test_runs : test_runs[k].passed
          /\ ret[1].passed =>
                /\ ret[1].attempts_used = FirstPassing
                /\ ret[1].error_type = None_

\* the tests passed on the first attempt, whose invocation timed out
C3_Witness ==
    /\ pc = "returned"
    /\ ret[1].passed
    /\ ret[1].attempts_used = 1
    /\ invocations[1].result.error_subtype = "timeout"
    /\ test_runs[1].passed

\* C4: failing tests on the final attempt after an invocation without error
\* give passed = false, attempts_used = MAX_ATTEMPTS, error_type =
\* "tests_failed", whatever happened on an earlier attempt
C4_TestsFailed ==
    (/\ ret # <<>>
     /\ Len(test_runs) = MAX_ATTEMPTS
     /\ ~test_runs[MAX_ATTEMPTS].passed
     /\ ~invocations[MAX_ATTEMPTS].result.is_error)
    => /\ ~ret[1].passed
       /\ ret[1].attempts_used = MAX_ATTEMPTS
       /\ ret[1].error_type = "tests_failed"

\* the first invocation timed out, the last did not error, its tests failed
C4_Witness ==
    /\ pc = "returned"
    /\ Len(test_runs) = MAX_ATTEMPTS
    /\ ~test_runs[MAX_ATTEMPTS].passed
    /\ ~invocations[MAX_ATTEMPTS].result.is_error
    /\ invocations[1].result.error_subtype = "timeout"
    /\ ret[1].error_type = "tests_failed"

\* the first attempt's invocation errored and its tests failed
FirstErroredAndFailed ==
    /\ Len(test_runs) >= 1
    /\ invocations[1].result.is_error
    /\ ~test_runs[1].passed

\* C5: when the first invocation errors and the tests then fail, run_task
\* does not return: it goes on to a second attempt, whose instruction is the
\* retry instruction built from the first attempt's test output
C5_RetryAfterError ==
    FirstErroredAndFailed =>
       /\ ret # <<>> => Len(invocations) = 2
       /\ Len(invocations) = 1 => (attempt = 2 /\ pc \in {"invoke", "crashed"})
       /\ Len(invocations) >= 2 =>
             invocations[2].prompt = build_retry_prompt(test_runs[1].output)

\* a second invocation after a timeout, fed a test output that was truncated
C5_Witness ==
    /\ Len(invocations) = 2
    /\ Len(test_runs) = 1
    /\ invocations[1].result.error_subtype = "timeout"
    /\ ~test_runs[1].passed
    /\ test_runs[1].output.len > TRUNCATE_LEN
    /\ invocations[2].prompt[2].len = TRUNCATE_LEN

InvocationSum(field) == SumSeq([k \in DOMAIN invocations |-> invocations[k].result[field]])

\* C6: each run_task call gives one TaskResult, whose turns, duration and
\* cost are the sums over every invocation made for the task (the cost
\* rounded to six decimals), errored invocations included
C6_TotalsOverAllAttempts ==
    /\ (ret # <<>>) <=> (pc = "returned")
    /\ pc \in {"invoke", "tests", "returned"} => Len(task_results) = task_index - 1
    /\ pc \in {"loop", "write_daily", "write_latest", "update_history", "cleanup", "done"}
          => Len(task_results) = task_index
    /\ ret # <<>> =>
          /\ ret[1].num_turns_total = InvocationSum("num_turns")
          /\ ret[1].duration_ms_total = InvocationSum("duration_ms")
          /\ ret[1].total_cost_usd_total % 10 = 0
          /\ 2 * Abs(ret[1].total_cost_usd_total - InvocationSum("total_cost_usd")) <= 10

\* two invocations, the first errored, both with turns and cost, and a sum
\* that the rounding changes
C6_Witness ==
    /\ pc = "returned"
    /\ Len(invocations) = 2
    /\ invocations[1].result.is_error
    /\ invocations[1].result.num_turns > 0
    /\ invocations[2].result.num_turns > 0
    /\ ret[1].total_cost_usd_total # InvocationSum("total_cost_usd")

-----------------------------------------------------------------------------
(* Properties of the usage merge, checked under Spec *)

\* the count of model under key in a usage dict, 0 when either is absent
CountIn(d, model, key) ==
    IF model \in Keys(d) THEN Get(Lookup(d, model), key) ELSE 0

\* merged is the component-wise sum of the usage dicts: every key of theirs and
\* no other, once each, with both token counts summed
IsSumOf(merged, dicts) ==
    /\ Keys(merged) = UNION {Keys(dicts[k]) : k \in DOMAIN dicts}
    /\ \A i, j \in DOMAIN merged : merged[i].key = merged[j].key => i = j
    /\ \A i \in DOMAIN merged :
          /\ DOMAIN merged[i].val = UsageKeys
          /\ \A key \in UsageKeys :
                merged[i].val[key] =
                   SumSeq([k \in DOMAIN dicts |-> CountIn(dicts[k], merged[i].key, key)])

\* C7: the merged usage of a TaskResult is the component-wise sum of the
\* usages of the task's invocations, and the merged usage of a RunSummary
\* that of the run's TaskResults: the keys are the union of the inputs' keys,
\* and a model or a count absent from an input adds 0
C7_UsageIsComponentwiseSum ==
    /\ ret # <<>> =>
          IsSumOf(ret[1].modelUsage,
                  [k \in DOMAIN invocations |-> invocations[k].result.model_usage])
    /\ results # <<>> =>
          IsSumOf(results[1].modelUsage,
                  [k \in DOMAIN task_results |-> task_results[k].modelUsage])

\* a run of two tasks whose usages share a model and differ in another
C7_Witness ==
    /\ results # <<>>
    /\ Len(task_results) = 2
    /\ Keys(task_results[1].modelUsage) = {"m1"}
    /\ Keys(task_results[2].modelUsage) = {"m1", "m2"}
    /\ task_results[1].attempts_used = 2
    /\ CountIn(results[1].modelUsage, "m1", "outputTokens") = 4

-----------------------------------------------------------------------------
(* Properties of aggregate_results, checked under SpecAggregate *)

\* the first TaskResult whose usage names the model
FirstSeen(model) ==
    CHOOSE k \in DOMAIN task_results :
        /\ model \in Keys(task_results[k].modelUsage)
        /\ \A j \in 1..(k - 1) : model \notin Keys(task_results[j].modelUsage)

\* C8: primary_model is "unknown" exactly when the merged usage is empty;
\* otherwise it is a key of the greatest inputTokens + outputTokens, the first
\* inserted of those, and keys are inserted as the tasks first name them
C8_PrimaryModel ==
    results # <<>> =>
       LET merged == results[1].modelUsage
           primary == results[1].primary_model
       IN  /\ (primary = "unknown") <=> (merged = <<>>)
           /\ merged # <<>> =>
                 \E k \in DOMAIN merged :
                    /\ merged[k].key = primary
                    /\ \A j \in DOMAIN merged : Tokens(merged[j].val) <= Tokens(merged[k].val)
                    /\ \A j \in 1..(k - 1) : Tokens(merged[j].val) < Tokens(merged[k].val)
           /\ \A i, j \in DOMAIN merged :
                 i < j => FirstSeen(merged[i].key) <= FirstSeen(merged[j].key)

\* two models with the same count, the first inserted is the primary one
C8_Witness ==
    /\ results # <<>>
    /\ Len(results[1].modelUsage) = 2
    /\ Tokens(results[1].modelUsage[1].val) = Tokens(results[1].modelUsage[2].val)
    /\ results[1].primary_model = results[1].modelUsage[1].key
    /\ results[1].primary_model = "m2"

\* C9: passed is the number of TaskResults with passed = true, total their
\* number, 0 <= passed <= total, and score is 100 * passed / total rounded
\* to one decimal, 0 for an empty run
C9_Score ==
    results # <<>> =>
       LET r == results[1]
       IN  /\ r.tasks = task_results
           /\ r.passed = Cardinality({k \in DOMAIN task_results : task_results[k].passed})
           /\ r.total = Len(task_results)
           /\ 0 <= r.passed /\ r.passed <= r.total
           /\ r.total = 0 => r.score10 = 0
           /\ r.total > 0 => 2 * Abs(r.score10 * r.total - 1000 * r.passed) <= r.total

\* two of three tasks passed: 66.666... is rounded up to 66.7
C9_Witness ==
    /\ results # <<>>
    /\ results[1].total = 3
    /\ results[1].passed = 2
    /\ results[1].score10 = 667

-----------------------------------------------------------------------------
(* Properties of update_history, checked under SpecHistory *)

\* C10: from an absent or empty history file, whatever runs are recorded one
\* after the other, the file holds at most one entry per date
C10_OneEntryPerDate ==
    \A i, j \in DOMAIN history_file.entries :
        history_file.entries[i].date = history_file.entries[j].date => i = j

\* three runs recorded, two of them for the same date
C10_Witness ==
    /\ history_calls = 3
    /\ Len(history_file.entries) = 2


\* the entry e carries the values of the summary r
CarriesValuesOf(e, r) ==
    /\ e.date = r.date
    /\ e.score10 = r.score10
    /\ e.passed = r.passed
    /\ e.total = r.total
    /\ e.total_cost_usd = r.total_cost_usd
    /\ e.total_duration_ms = r.total_duration_ms
    /\ e.primary_model = r.primary_model
    /\ e.claude_version = r.claude_version

\* the entries of the file for the date
EntriesOf(file, date) == {k \in DOMAIN file.entries : file.entries[k].date = date}

\* C11: recording a run for the date of the run recorded before it leaves
\* one entry for that date, with the values of the second run; recording
\* the same summary again leaves the history as it was
C11_SameDateReplaces ==
    [][(history_calls >= 1 /\ history_calls' = history_calls + 1
        /\ results'[1].date = results[1].date)
       => /\ Cardinality(EntriesOf(history_file', results'[1].date)) = 1
          /\ \A k \in EntriesOf(history_file', results'[1].date) :
                CarriesValuesOf(history_file'.entries[k], results'[1])
          /\ results' = results => history_file' = history_file]_vars

\* two runs recorded and one entry: they had the same date, and the entry is
\* that of the second, which found no test passing under an unknown version
C11_Witness ==
    /\ history_calls = 2
    /\ Len(history_file.entries) = 1
    /\ CarriesValuesOf(history_file.entries[1], results[1])
    /\ results[1].claude_version = "unknown"
    /\ results[1].total = 1
    /\ results[1].passed = 0

\* C12: after every update_history the entries are in ascending order of
\* date, in whatever order the runs were recorded
C12_SortedByDate ==
    \A i, j \in DOMAIN history_file.entries :
        i < j => history_file.entries[i].date <= history_file.entries[j].date

\* three dates recorded, the earliest of them last
C12_Witness ==
    /\ history_calls = 3
    /\ Len(history_file.entries) = 3
    /\ results[1].date = 1
    /\ history_file.entries[1].date = 1


\* C13: after the k-th task the list holds k results, those of the first k
\* tasks in dataset order; the summary lists all N tasks in that order; the
\* progress line printed after task k counts those k results
C13_ResultsInDatasetOrder ==
    /\ pc \in {"loop", "write_daily", "write_latest", "update_history", "cleanup", "done"}
          => Len(task_results) = task_index
    /\ pc \in {"invoke", "tests", "returned", "crashed"}
          => Len(task_results) = task_index - 1
    /\ pc \notin {"start", "load", "exited"}
          => /\ Len(task_results) <= Len(tasks)
             /\ \A k \in DOMAIN task_results : task_results[k].task_id = tasks[k].task_id
             /\ \/ Len(task_results) = 0 /\ running_score = <<>>
                \/ /\ Len(task_results) > 0
                   /\ running_score # <<>>
                   /\ running_score[1].of = Len(task_results)
                   /\ running_score[1].passed_so_far
                        = Cardinality({k \in DOMAIN task_results : task_results[k].passed})
    /\ pc \in {"write_daily", "write_latest", "update_history", "cleanup", "done"}
          => /\ Len(results[1].tasks) = Len(tasks)
             /\ \A k \in DOMAIN tasks : results[1].tasks[k].task_id = tasks[k].task_id

\* a run over two tasks is summarised: the first failed, the second passed
C13_Witness ==
    /\ pc = "done"
    /\ Len(tasks) = 2
    /\ ~results[1].tasks[1].passed
    /\ results[1].tasks[2].passed
    /\ running_score = <<[passed_so_far |-> 1, of |-> 2]>>


\* C14: no failure inside a task's lifecycle leaves run_task as an
\* exception: the process never ends inside a task, and main goes on to
\* the later tasks
C14_FailuresAbsorbed == pc # "crashed"


\* C15: without the task file main exits with a non-zero status before any
\* task work: no workspace is set up, no agent and no test is run, and the
\* daily, latest and history files stay as they were
C15_MissingDatasetExits ==
    /\ [](~task_file_exists
            => /\ pc \in {"start", "load", "exited"}
               /\ task = <<>> /\ invocations = <<>> /\ test_runs = <<>>
               /\ task_results = <<>> /\ results = <<>>
               /\ pc = "exited" => (exit_code # <<>> /\ exit_code[1] # 0))
    /\ [][~task_file_exists
            => UNCHANGED <<workspace_dir, daily_files, latest_file, history_file>>]_vars

\* main has exited with status 1 and the stale workspace of an earlier run
\* is as it was
C15_Witness ==
    /\ pc = "exited"
    /\ ~task_file_exists
    /\ exit_code = <<1>>
    /\ Len(dataset) = 2
    /\ workspace_dir = StubWorkspace(dataset)
    /\ history_file = NoFile


\* C16: once a run has written its files, latest.json has the content of
\* the daily file of the date of the run
C16_LatestIsDaily ==
    pc \in {"update_history", "cleanup", "done"}
        => /\ latest_file # <<>>
           /\ latest_file = daily_files[results[1].date]
           /\ latest_file[1].json = results[1]

\* a run over two tasks has ended and both files hold its summary
C16_Witness ==
    /\ pc = "done"
    /\ latest_file # <<>>
    /\ Len(latest_file[1].json.tasks) = 2
    /\ latest_file[1].json.passed = 1
    /\ daily_files[results[1].date] = latest_file


\* C17: within a task the agent and the tests alternate: every run_claude,
\* timed out and failed ones too, is followed by one run_tests before the
\* next run_claude and before the result; attempt n + 1 starts after the
\* verdict of attempt n; one call at most is under way
C17_InvokeThenTest ==
    /\ pc = "tests" => Len(invocations) = Len(test_runs) + 1
    /\ pc # "tests" => Len(invocations) = Len(test_runs)
    /\ \A k \in DOMAIN invocations : invocations[k].attempt = k
    /\ \A k \in DOMAIN test_runs : test_runs[k].attempt = k
    /\ pc = "invoke" => attempt = Len(test_runs) + 1
    /\ pc = "tests" => attempt = Len(invocations)
    /\ pc = "returned" => Len(test_runs) >= 1

\* a task has returned after two attempts: the agent timed out in the first
\* and reported an error in the second, and the tests ran after each
C17_Witness ==
    /\ pc = "returned"
    /\ Len(invocations) = 2
    /\ Len(test_runs) = 2
    /\ invocations[1].result.error_subtype = "timeout"
    /\ invocations[2].result.is_error
    /\ ~test_runs[1].passed


\* the agent process o ended in an error: a timeout, output that is not
\* JSON, or a JSON object reporting an error
Errored(o) == o.kind \in {"timeout", "bad_json"} \/ (o.kind = "json" /\ o.isError)

\* the classifier of the ending o of the agent process, with the given
\* default for an error without a subtype
Classifier(o, default) ==
    IF o.kind = "timeout" THEN "timeout"
    ELSE IF o.kind = "bad_json" \/ o.subtype = None_ THEN default
    ELSE o.subtype

\* run_task has returned after a last attempt whose agent ended in an error
\* and whose tests failed
FinalErroredAndFailed ==
    /\ pc = "returned"
    /\ Len(invocations) = MAX_ATTEMPTS
    /\ Len(test_runs) = MAX_ATTEMPTS
    /\ Errored(invocations[MAX_ATTEMPTS].outcome)
    /\ ~test_runs[MAX_ATTEMPTS].passed

\* C18 as stated: the last attempt's agent ended in an error and its tests
\* failed, so the task failed with the classifier of that invocation, the
\* default classifier being "agent_error"
C18_AgentErrorDefault ==
    FinalErroredAndFailed
        => /\ ~ret[1].passed
           /\ ret[1].error_type = Classifier(invocations[MAX_ATTEMPTS].outcome, "agent_error")

\* C18 amended: the same, the default classifier being "claude_error"
C18_ClassifierOfFinalInvocation ==
    FinalErroredAndFailed
        => /\ ~ret[1].passed
           /\ ret[1].error_type = Classifier(invocations[MAX_ATTEMPTS].outcome, "claude_error")

\* the agent timed out in the first attempt and reported the turn limit in
\* the second, the tests failed twice, and the task failed as error_max_turns
C18_Witness ==
    /\ FinalErroredAndFailed
    /\ invocations[1].outcome.kind = "timeout"
    /\ invocations[MAX_ATTEMPTS].outcome.subtype = "error_max_turns"
    /\ ret[1].error_type = "error_max_turns"
    /\ ~ret[1].passed


\* the test process of the k-th run_tests of the task did not run to its
\* end: it timed out or could not be run
ExecutorFailed(k) == test_runs[k].kind \in {"timeout", "exception"}

\* C19: a run_tests whose test process timed out or could not be run is a
\* failing verdict with a diagnostic text; it uses up its attempt, the next
\* attempt's instruction carries the text, and after the last attempt the
\* task has failed
C19_ExecutorFailureIsFailingVerdict ==
    \A k \in DOMAIN test_runs :
        ExecutorFailed(k)
            => /\ ~test_runs[k].passed
               /\ test_runs[k].output.len > 0
               /\ test_runs[k].attempt = k
               /\ (k = Len(test_runs) /\ pc \in {"invoke", "crashed"})
                     => /\ attempt = k + 1
                        /\ k < MAX_ATTEMPTS
                        /\ test_output = <<test_runs[k].output>>
                        /\ \E i \in DOMAIN Prompt : Prompt[i] = test_runs[k].output
               /\ k < Len(invocations)
                     => /\ invocations[k + 1].attempt = k + 1
                        /\ \E i \in DOMAIN invocations[k + 1].prompt :
                              invocations[k + 1].prompt[i] = test_runs[k].output
               /\ (k = Len(test_runs) /\ pc = "returned")
                     => /\ k = MAX_ATTEMPTS
                        /\ ~ret[1].passed
                        /\ ret[1].attempts_used = MAX_ATTEMPTS
                        /\ ret[1].error_type # None_

\* the tests timed out after the first attempt and could not be run after
\* the second, whose agent ended without an error: the task has failed
C19_Witness ==
    /\ pc = "returned"
    /\ Len(test_runs) = 2
    /\ test_runs[1].kind = "timeout"
    /\ test_runs[2].kind = "exception"
    /\ ~invocations[2].result.is_error
    /\ ~ret[1].passed
    /\ ret[1].error_type = "tests_failed"


\* C20: the first run_claude of a task is given no session and starts a
\* new conversation; each later one is given the session of the result of
\* the one before it, and resumes the conversation whose session the agent
\* reported in that attempt
C20_SessionThreaded ==
    \A k \in DOMAIN invocations :
        /\ k = 1 => (invocations[k].session_id = None_ /\ invocations[k].resume = <<>>)
        /\ k > 1 =>
            /\ invocations[k].session_id = invocations[k - 1].result.session_id
            /\ (invocations[k - 1].outcome.kind = "json"
                  /\ invocations[k - 1].outcome.sessionId # None_)
                 => invocations[k].resume
                        = <<"--resume", invocations[k - 1].outcome.sessionId>>

\* the agent answered in session s1 and the tests failed: the second
\* attempt resumes s1
C20_Witness ==
    /\ Len(invocations) = 2
    /\ invocations[1].outcome.sessionId = "s1"
    /\ invocations[2].session_id = "s1"
    /\ invocations[2].resume = <<"--resume", "s1">>


-----------------------------------------------------------------------------
(* The workspace of a task, checked under SpecWorkspace: runs over datasets *)
(* whose task identifiers may share a directory, started on what an earlier *)
(* run left in bench/workspace                                              *)

\* a task whose identifier has "_" where that of Task(n) has "/"
UnderscoreTask(n) == [task_id |-> <<"HumanEval", "_", Digits[n]>>, entry_point |-> Digits[n]]

\* datasets of two tasks: different directories, one directory for two
\* identifiers, one identifier twice
CollidingDatasets ==
    { <<Task(1), Task(2)>>, <<Task(1), UnderscoreTask(1)>>,
      <<UnderscoreTask(1), Task(1)>>, <<Task(1), Task(1)>> }

\* bench/workspace as an earlier run that did not clean up left it: the
\* directories of ds with the solutions an agent wrote for some other task
StaleWorkspace(ds) ==
    [d \in {task_dir_name(ds[k]) : k \in DOMAIN ds} |->
        [task_id |-> <<"HumanEval", "/", "0">>, solution |-> "agent"]]

WorkspaceEnv ==
    [agent |-> { o \in AgentOutcomes : o.kind = "timeout" \/ o.subtype = "success" },
     tests |-> { o \in TestOutcomes : o.kind = "exit" /\ o.output.len <= TRUNCATE_LEN },
     dates |-> {1}, versions |-> {"unknown"}]

InitWorkspace ==
    /\ env = WorkspaceEnv
    /\ pc = "start"
    /\ task_file_exists \in BOOLEAN
    /\ dataset \in CollidingDatasets
    /\ claude_version = None_
    /\ tasks = <<>>
    /\ started_at = <<>>
    /\ task_index = 0
    /\ task_results = <<>>
    /\ running_score = <<>>
    /\ results = <<>>
    /\ exit_code = <<>>
    /\ IdleTask
    /\ daily_files = NoDailyFiles
    /\ latest_file = <<>>
    /\ history_file = NoFile
    /\ workspace_dir \in {<<>>, StubWorkspace(dataset), StaleWorkspace(dataset)}
    /\ history_calls = 0
    /\ recorders = <<>>

SpecWorkspace == InitWorkspace /\ [][Next]_vars

\* the directory of the task run_task is working on
TaskDir == task_dir_name(task[1])

\* C21: while a task's agent or tests are about to run or running, the
\* directory of the task holds what setup_workspace built for this task:
\* the stub before the first invocation and, setup_workspace not being
\* called again, what this task's agent made of it after; nothing of another
\* task or of an earlier run, also when identifiers share the directory
C21_WorkspaceOwnedByTask ==
    pc \in {"invoke", "tests"}
        => /\ TaskDir \in DOMAIN workspace_dir
           /\ workspace_dir[TaskDir].task_id = task[1].task_id
           /\ (pc = "invoke" /\ attempt = 1) => workspace_dir[TaskDir].solution = "stub"
           /\ (pc = "tests" \/ attempt > 1) => workspace_dir[TaskDir].solution = "agent"
           /\ Len(invocations) = IF pc = "tests" THEN attempt ELSE attempt - 1

\* the second task, whose identifier shares the directory of the first, is
\* about to start on the stub, in a run that found stale directories
C21_Witness ==
    /\ pc = "invoke"
    /\ attempt = 1
    /\ task_index = 2
    /\ task[1] = UnderscoreTask(1)
    /\ tasks[1] = Task(1)
    /\ task_results[1].attempts_used = 2
    /\ workspace_dir[TaskDir] = [task_id |-> UnderscoreTask(1).task_id, solution |-> "stub"]
    /\ Cardinality(DOMAIN workspace_dir) = 1


-----------------------------------------------------------------------------
(* The instructions, checked under Spec *)

\* the pieces of an instruction between its first and its last
Embedded(prompt) == SubSeq(prompt, 2, Len(prompt) - 1)

\* C22: the first instruction of a task is the fixed one, whatever the task;
\* a later instruction embeds the test output of the attempt before it as
\* it is when it has at most 2000 characters, and else its first 2000
\* characters followed by the truncation marker
C22_Instructions ==
    \A k \in DOMAIN invocations :
        /\ k = 1 =>
              /\ invocations[k].prompt = << Text("Read prompt.md and implement ...", 105) >>
              /\ \A n \in 1..MaxTasks : build_prompt(Task(n)) = invocations[k].prompt
        /\ k > 1 =>
              LET out == test_runs[k - 1].output
              IN  /\ Len(invocations[k].prompt) >= 3
                  /\ out.len <= 2000 => Embedded(invocations[k].prompt) = << out >>
                  /\ out.len > 2000 =>
                        Embedded(invocations[k].prompt)
                            = << [src |-> out.src, len |-> 2000],
                                 Text("\n... (truncated)", 16) >>

\* the second task's retry was told an output of exactly 2000 characters,
\* whole; its first instruction was the one the first task got
C22_Witness ==
    /\ task_index = 2
    /\ Len(invocations) = 2
    /\ test_runs[1].output.len = 2000
    /\ Embedded(invocations[2].prompt) = << test_runs[1].output >>
    /\ invocations[1].prompt = build_prompt(Task(1))


-----------------------------------------------------------------------------
(* update_history in two processes at once, checked under SpecConcurrent: *)
(* each call reads history.json when it starts and writes it when it ends *)

Range(s) == {s[k] : k \in DOMAIN s}

\* the two runs of main that have reached update_history
Recorders == {"a", "b"}

\* the summaries such a run may hold: no task or one failed task, any date
ConcurrentSummaries ==
    { aggregate_results(trs, Timestamp(d, "T09:00"), Timestamp(d, "T10:00"), "unknown") :
        trs \in CannedRuns, d \in Dates }

\* history.json as earlier runs left it: absent, or written by update_history
EarlierHistories ==
    {NoFile}
    \cup { update_history(NoFile, r) : r \in ConcurrentSummaries }
    \cup { update_history(update_history(NoFile, r1), r2) :
             r1 \in {r \in ConcurrentSummaries : r.total = 0},
             r2 \in {r \in ConcurrentSummaries : r.total = 1} }

InitConcurrent ==
    /\ env = [agent |-> {}, tests |-> {}, dates |-> Dates, versions |-> {"unknown"}]
    /\ pc = "update_history"
    /\ IdleMain
    /\ IdleTask
    /\ daily_files = NoDailyFiles
    /\ latest_file = <<>>
    /\ history_file \in EarlierHistories
    /\ workspace_dir = <<>>
    /\ history_calls = 0
    /\ recorders = [r \in Recorders |->
                      [pc |-> "load", today |-> <<>>, loaded |-> <<>>,
                       loaded_after |-> 0, wrote |-> 0]]

\* update_history of run r: history.json is read, if it exists
Rec_Load(r) ==
    /\ recorders[r].pc = "load"
    /\ \E today_result \in ConcurrentSummaries :
          recorders' = [recorders EXCEPT ![r] =
                          [pc |-> "write", today |-> <<today_result>>,
                           loaded |-> <<history_file>>,
                           loaded_after |-> history_calls, wrote |-> 0]]
    /\ UNCHANGED <<mainVars, taskVars, daily_files, latest_file, history_file,
                   workspace_dir, history_calls>>

\* mutant: the file is read again right before it is written
history_at_write_Reread(loaded, current) == current

\* the history the entry is put into: the one read when the call began
history_at_write(loaded, current) == loaded

\* update_history of run r: the entry is put into the history read and the
\* whole of it is written to history.json
Rec_Write(r) ==
    /\ recorders[r].pc = "write"
    /\ history_file' = update_history(history_at_write(recorders[r].loaded[1], history_file),
                                      recorders[r].today[1])
    /\ history_calls' = history_calls + 1
    /\ recorders' = [recorders EXCEPT ![r].pc = "done", ![r].wrote = history_calls + 1]
    /\ UNCHANGED <<mainVars, taskVars, daily_files, latest_file, workspace_dir>>

NextConcurrent == \E r \in Recorders : Rec_Load(r) \/ Rec_Write(r)

SpecConcurrent == InitConcurrent /\ [][NextConcurrent]_vars

\* both calls have ended and each had read the file before any was written
BothReadBeforeAnyWrite ==
    \A r \in Recorders : recorders[r].pc = "done" /\ recorders[r].loaded_after = 0

\* the call that wrote last
LaterWriter == CHOOSE r \in Recorders : recorders[r].wrote = Cardinality(Recorders)

\* C23: when both calls read the history before either writes it, the
\* history left after both writes is what the later writer wrote: the
\* entries it had read for other dates and its own entry, nothing of the
\* earlier writer; and at all times the persisted history is in ascending
\* order of date with one entry per date at most
C23_LastWriterWins ==
    /\ \A i, j \in DOMAIN history_file.entries :
          i < j => history_file.entries[i].date < history_file.entries[j].date
    /\ BothReadBeforeAnyWrite =>
          LET w     == recorders[LaterWriter]
              read  == Range(w.loaded[1].entries)
              final == Range(history_file.entries)
          IN  /\ \A e \in final :
                    IF e.date = w.today[1].date THEN CarriesValuesOf(e, w.today[1])
                    ELSE e \in read
              /\ \A e \in read : e.date # w.today[1].date => e \in final
              /\ \E e \in final : e.date = w.today[1].date

\* both read an empty history; a wrote date 1, then b wrote date 2: the
\* history holds b's entry alone, a's is lost
C23_Witness ==
    /\ BothReadBeforeAnyWrite
    /\ recorders["a"].wrote = 1
    /\ recorders["b"].wrote = 2
    /\ recorders["a"].today[1].date = 1
    /\ recorders["b"].today[1].date = 2
    /\ recorders["b"].loaded = <<NoFile>>
    /\ Len(history_file.entries) = 1
    /\ history_file.entries[1].date = 2


-----------------------------------------------------------------------------
(* The end of a run, checked under Spec *)

\* C24: a run whose dataset is present ends in one way only: no task took
\* more than MAX_ATTEMPTS invocations, the daily file, then the latest file,
\* then the history were written, and the workspaces were removed after all
\* three, before the process exits
C24_RunsToCompletion ==
    /\ Len(invocations) <= MAX_ATTEMPTS
    /\ latest_file # <<>> => (results # <<>> /\ daily_files[results[1].date] # <<>>)
    /\ history_file.exists => latest_file # <<>>
    /\ (task_file_exists /\ exit_code # <<>>)
          => /\ pc = "done"
             /\ exit_code = <<0>>
             /\ Len(task_results) = Len(tasks)
             /\ daily_files[results[1].date] # <<>>
             /\ latest_file # <<>>
             /\ history_file.exists
             /\ workspace_dir = <<>>


-----------------------------------------------------------------------------
(* The effect of one update_history on the other dates, checked under *)
(* SpecHistory                                                        *)

\* the entries of s for dates other than date, in their order in s
OtherDates(s, date) == SelectSeq(s, LAMBDA e : e.date # date)

\* C25: an update_history call for date D leaves the entries of the other
\* dates as they were, values and relative order, and the number of entries
\* grows by one when there was no entry for D and stays when there was one
C25_OtherDatesUntouched ==
    [][history_calls' = history_calls + 1
       => LET D   == results'[1].date
              old == history_file.entries
              new == history_file'.entries
          IN  /\ OtherDates(new, D) = OtherDates(old, D)
              /\ Len(new) = Len(old) + (IF \E k \in DOMAIN old : old[k].date = D
                                        THEN 0 ELSE 1)]_vars

\* the third call recorded date 2 between the entries of dates 1 and 3
C25_Witness ==
    /\ history_calls = 3
    /\ results[1].date = 2
    /\ Len(history_file.entries) = 3
    /\ history_file.entries[1].total = 1
    /\ history_file.entries[2].total = 0
    /\ history_file.entries[3].total = 1


-----------------------------------------------------------------------------
(* Runs of main one after the other on the same docs/data, checked under *)
(* SpecRuns: each run is taken from its aggregation on                   *)

\* the days a run that started on day d can finish on: d or the day after
FinishDates(d) == {d, d + 1} \cap Dates

\* a run has stepped through its tasks: results = aggregate_results(...)
Runs_Aggregate ==
    /\ pc \in {"idle", "done"}
    /\ history_calls < MaxCalls
    /\ \E trs \in CannedRuns, d \in env.dates, v \in env.versions :
         \E f \in FinishDates(d) :
            results' = <<aggregate_results(trs, Timestamp(d, "T23:00"),
                                           Timestamp(f, "T23:30"), v)>>
    /\ pc' = "write_daily"
    /\ exit_code' = <<>>
    /\ UNCHANGED <<env, task_file_exists, dataset, claude_version, tasks, started_at,
                   task_index, task_results, running_score, taskVars, fileVars>>

InitRuns ==
    /\ env = [agent |-> {}, tests |-> {}, dates |-> Dates, versions |-> {"unknown"}]
    /\ pc = "idle"
    /\ IdleMain
    /\ IdleTask
    /\ daily_files = NoDailyFiles
    /\ latest_file = <<>>
    /\ history_file = NoFile
    /\ workspace_dir = <<>>
    /\ history_calls = 0
    /\ recorders = <<>>

NextRuns ==
    \/ Runs_Aggregate
    \/ Main_WriteDaily
    \/ Main_WriteLatest
    \/ Main_UpdateHistory
    \/ Main_Cleanup

SpecRuns == InitRuns /\ [][NextRuns]_vars

\* the summary stored in the daily file of the date, if there is one
DailySummary(date) == daily_files[date][1].json

\* C26: when a run has completed, the history entry of its date carries the
\* values of its daily file, the latest file is its daily file, and every
\* entry of the history carries the values of the daily file now stored for
\* its date
C26_FilesAgree ==
    pc = "done"
       => /\ latest_file # <<>>
          /\ latest_file = daily_files[results[1].date]
          /\ DailySummary(results[1].date) = results[1]
          /\ \E k \in DOMAIN history_file.entries :
                /\ history_file.entries[k].date = results[1].date
                /\ CarriesValuesOf(history_file.entries[k], DailySummary(results[1].date))
          /\ \A k \in DOMAIN history_file.entries :
                /\ history_file.entries[k].date \in DOMAIN daily_files
                /\ daily_files[history_file.entries[k].date] # <<>>
                /\ CarriesValuesOf(history_file.entries[k],
                                   DailySummary(history_file.entries[k].date))

\* three runs have completed: one of day 2, one of day 1 that finished on
\* day 2, and a second one of day 2, with one failed task
C26_Witness ==
    /\ pc = "done"
    /\ history_calls = 3
    /\ Len(history_file.entries) = 2
    /\ results[1].date = 2
    /\ results[1].total = 1
    /\ DailySummary(1).finished_at.date = 2
    /\ DailySummary(2) = results[1]
    /\ history_file.entries[1].total = 0

=============================================================================
